---------------------------- MODULE Spec2Model ----------------------------
(***************************************************************************)
(* Model of led_sign_modes.py (src/main.py): the NeoPixel sign animation   *)
(* engine.  The colour primitives blend_color and hsv_to_rgb are operators *)
(* over exact rationals (numerator, denominator); the display modes are    *)
(* frame loops whose position is pc; the millisecond tick counter is the   *)
(* variable clock, which wraps at TICKS_PERIOD.                            *)
(*                                                                         *)
(* Numbers.  Python floats are modelled by exact rationals (numerator and   *)
(* denominator) and int() by truncation towards zero.  A float computation *)
(* rounds, so where its exact value is a whole number the float may lie    *)
(* just short of it and int() then gives the number before: the colour     *)
(* primitives take this as an extra argument, chosen freely by the caller. *)
(* math.sin is modelled by Bhaskara I's rational approximation in          *)
(* thousandths (within 0.003 of math.sin); it agrees with math.sin at      *)
(* every multiple of a quarter turn and has its range, period and symmetry.*)
(*                                                                         *)
(* The source file ends inside mode_cycle_colors (line 199): the body of   *)
(* that mode and the main loop that calls the modes are not in src/ and    *)
(* are modelled from the specification text (CycleActivate .. CycleSleep,  *)
(* SchedulerStep, Schedule, NextMode, CycleHue, HUE_RATE).                 *)
(***************************************************************************)
EXTENDS Integers, Sequences, FiniteSets

VARIABLES
    letter_configs,  \* the segment configuration (line 33), fixed at start
    np,              \* the NeoPixel buffer np[0 .. NUM_LEDS-1] (line 54)
    sink,            \* the colours last pushed to the strip by np.write()
    clock,           \* value of the ms tick counter at the latest reading
    mode,            \* the display mode whose function is running
    pc,              \* position inside the running mode function
    start_time,      \* local start_time of the running mode function
    current_time,    \* local current_time of the running mode function
    letter_params,   \* local letter_params of mode_fade_letters
    wave_pos,        \* local wave_pos of mode_wave_effect, times WAVE_PERIOD_MS
    assigned,        \* history: positions stored into np since the last np.write()
    frames,          \* history: frames computed in this activation
    writes,          \* history: np.write() calls in this activation
    sleeps,          \* history: time.sleep() calls in this activation
    activations,     \* history: mode functions entered so far
    draws,           \* history: random.uniform() calls so far
    call             \* the latest call of a colour primitive and its result

vars == <<letter_configs, np, sink, clock, mode, pc, start_time, current_time,
          letter_params, wave_pos, assigned, frames, writes, sleeps,
          activations, draws, call>>

-----------------------------------------------------------------------------
(* Bounds of the model *)

MaxJitter == 1        \* ms the clock may advance between two consecutive readings
MaxActivations == 4   \* mode activations explored (one rotation and one more)
DurationMs == 51      \* duration_ms handed to every mode (600000 on the sign)
HueSpan == 400        \* hues explored: -HueSpan .. 360 + HueSpan degrees
SvDen == 4            \* saturation and value explored: k / SvDen, k in 0 .. SvDen

(* Program constants *)

SLEEP_MS == 50          \* time.sleep(0.05)
WAVE_PERIOD_MS == 10000 \* wave_period_ms
THRESHOLD == 3          \* threshold
FADE_PERIOD_MS == 5000  \* period = 5.0 seconds
TICKS_PERIOD == 2^30    \* period of time.ticks_ms() on the MicroPython ports

warm_white == <<255, 244, 229>>
wave_colors == <<(<<0, 0, 255>>), (<<0, 255, 0>>), (<<255, 255, 0>>)>>
white == <<255, 255, 255>>
black == <<0, 0, 0>>

-----------------------------------------------------------------------------
(* Arithmetic helpers *)

Abs(x) == IF x < 0 THEN -x ELSE x

\* Python int() of the rational n/d (d > 0): truncation towards zero.
Trunc(n, d) == IF n >= 0 THEN n \div d ELSE -((-n) \div d)

\* int() of a float computed with rounding whose exact value is n/d.  With
\* short = 1 the float lies just short of its exact value, which shows when
\* that value is a whole number other than 0.
IntOfFloat(n, d, short) ==
    IF short = 1 /\ n # 0 /\ n % d = 0
    THEN (IF n > 0 THEN n \div d - 1 ELSE -((-n) \div d - 1))
    ELSE Trunc(n, d)

\* The ways the three channels of one colour may round.
Roundings == [1 .. 3 -> {0, 1}]

\* time.ticks_diff(a, b): the signed wrap-safe difference a - b.
TicksDiff(a, b) ==
    ((a - b + TICKS_PERIOD \div 2) % TICKS_PERIOD) - TICKS_PERIOD \div 2

\* The tick counter j ms after its latest reading.
TicksAdd(j) == (clock + j) % TICKS_PERIOD

-----------------------------------------------------------------------------
(* Colour primitives *)

BlendChannelSwapped(a, b, fn, fd, short) ==
    IF fn = 0 \/ fn = fd
    THEN Trunc(fn * a + (fd - fn) * b, fd)
    ELSE IntOfFloat(fn * a + (fd - fn) * b, fd, short)

\* One channel of blend_color, factor = fn/fd:  int((1 - factor)*a + factor*b).
\* With factor 0.0 or 1.0 the float arithmetic is exact (products by 0.0 and
\* 1.0, a sum with 0.0).
BlendChannel(a, b, fn, fd, short) ==
    IF fn = 0 \/ fn = fd
    THEN Trunc((fd - fn) * a + fn * b, fd)
    ELSE IntOfFloat((fd - fn) * a + fn * b, fd, short)

blend_color(c1, c2, fn, fd, rnd) ==
    <<BlendChannel(c1[1], c2[1], fn, fd, rnd[1]),
      BlendChannel(c1[2], c2[2], fn, fd, rnd[2]),
      BlendChannel(c1[3], c2[3], fn, fd, rnd[3])>>

HsvXNoMod(h) == 60 - Abs(h - 60)

\* 60 * (1 - abs((h / 60.0) % 2 - 1)), h in whole degrees.  Python's float %
\* takes the sign of the divisor, so (h/60) % 2 lies in [0, 2) for every h.
HsvX(h) == 60 - Abs((h % 120) - 60)

\* hsv_to_rgb(h, s, v) with s = sn/SvDen and v = vn/SvDen.  Every component is
\* kept over the common denominator 60 * SvDen * SvDen.  The components that
\* are 0, x and c round as rnd[1], rnd[2] and rnd[3] say; equal components are
\* the same float and round alike, and with s and v both 0.0 or 1.0 the
\* arithmetic on 0 and c is exact.
hsv_to_rgb(h, sn, vn, rnd) ==
    LET den == 60 * SvDen * SvDen
        c   == 60 * vn * sn                 \* c = v * s
        x   == vn * sn * HsvX(h)            \* x = c * (1 - abs(...))
        m   == 60 * vn * SvDen - c          \* m = v - c
        p   == IF 0 <= h /\ h < 60 THEN <<c, x, 0>>
               ELSE IF 60 <= h /\ h < 120 THEN <<x, c, 0>>
               ELSE IF 120 <= h /\ h < 180 THEN <<0, c, x>>
               ELSE IF 180 <= h /\ h < 240 THEN <<0, x, c>>
               ELSE IF 240 <= h /\ h < 300 THEN <<x, 0, c>>
               ELSE <<c, 0, x>>
        exact == sn \in {0, SvDen} /\ vn \in {0, SvDen}
        short(q) == IF q = 0 THEN (IF exact THEN 0 ELSE rnd[1])
                    ELSE IF q = c THEN (IF exact THEN 0 ELSE rnd[3])
                    ELSE rnd[2]
    IN  <<IntOfFloat((p[1] + m) * 255, den, short(p[1])),
          IntOfFloat((p[2] + m) * 255, den, short(p[2])),
          IntOfFloat((p[3] + m) * 255, den, short(p[3]))>>

-----------------------------------------------------------------------------
(* Segment model *)

\* Segment configurations explored.  ConfigReference is the shape of the
\* sign's own table (contiguous blocks covering the strip); ConfigGap leaves
\* positions 2..4 in no segment and has a letter color_map does not know;
\* ConfigInterleaved covers the strip with non-contiguous segments.
ConfigReference ==
    << [letter |-> "A", leds |-> <<0, 1, 2, 3>>],
       [letter |-> "W", leds |-> <<4, 5, 6, 7>>] >>
ConfigGap ==
    << [letter |-> "E", leds |-> <<0, 1>>],
       [letter |-> "X", leds |-> <<5, 6, 7>>] >>
ConfigInterleaved ==
    << [letter |-> "R", leds |-> <<0, 2, 4, 6>>],
       [letter |-> "S", leds |-> <<1, 3, 5, 7>>] >>
Configs == {ConfigReference, ConfigGap, ConfigInterleaved}

Leds(cfg) == {cfg.leds[k] : k \in DOMAIN cfg.leds}

AllLeds == UNION {Leds(letter_configs[k]) : k \in DOMAIN letter_configs}

\* NUM_LEDS: one more than the largest index of any letter, 0 without LEDs.
NUM_LEDS ==
    IF AllLeds = {} THEN 0
    ELSE (CHOOSE n \in AllLeds : \A k \in AllLeds : k <= n) + 1

Positions == 0 .. (NUM_LEDS - 1)

\* color_map.get(letter, (255, 255, 255))
BaseColor(letter) ==
    CASE letter = "A" -> <<255, 0, 0>>
      [] letter = "W" -> <<0, 255, 0>>
      [] letter = "R" -> <<0, 0, 255>>
      [] letter = "E" -> <<255, 255, 0>>
      [] letter = "N" -> <<0, 255, 255>>
      [] letter = "S" -> <<255, 0, 255>>
      [] OTHER -> white

-----------------------------------------------------------------------------
(* Fade-letters arithmetic.  Angles are counted in 1/FADE_PERIOD_MS of a  *)
(* turn, so that 2*pi*(t/period) is t in milliseconds and a phase offset   *)
(* of 2*pi*k/FADE_PERIOD_MS is k.                                          *)

\* Values random.uniform(0, 2*pi) may return, in 1/FADE_PERIOD_MS turns:
\* 0, a quarter turn and three quarters of a turn.
PhaseOffsets == {0, FADE_PERIOD_MS \div 4, (3 * FADE_PERIOD_MS) \div 4}

\* 1000 * math.sin of the angle a (any integer, in 1/FADE_PERIOD_MS turns).
SinMilli(a) ==
    LET half == FADE_PERIOD_MS \div 2
        x    == a % FADE_PERIOD_MS
        xr   == x % half
        y    == (xr * (half - xr)) \div ((half * half) \div 10000)
        mag  == (16000 * y) \div (50000 - 4 * y)
    IN  IF x < half THEN mag ELSE -mag

BrightnessNoHalving(t, phase_offset) == 2 * (SinMilli(t + phase_offset) + 1000)

\* brightness = (math.sin(2*pi*(t/period) + phase_offset) + 1) / 2, as the
\* numerator over BrightDen; t in milliseconds.
Brightness(t, phase_offset) == SinMilli(t + phase_offset) + 1000
BrightDen == 2 * 1000

\* scaled_color: int(base_color[k] * brightness) per channel.
ScaledColor(base, bnum) ==
    <<Trunc(base[1] * bnum, BrightDen),
      Trunc(base[2] * bnum, BrightDen),
      Trunc(base[3] * bnum, BrightDen)>>

\* t of line 144 in milliseconds: the plain difference of the two readings.
FadeT(ct, st) == ct - st

\* scaled_color of segment idx at time t.
SegmentColor(idx, t) ==
    ScaledColor(letter_params[idx].base_color,
                Brightness(t, letter_params[idx].phase_offset))

\* The positions the loops of lines 146 and 156 store into: the LEDs listed
\* by some letter.
FadeAssigned == AllLeds

\* The buffer after the loop of lines 146-157: every LED of every letter holds
\* the colour of the last letter that lists it; the other positions are not
\* touched.
FadeBuffer(buf, t) ==
    [i \in DOMAIN buf |->
        LET owners == {idx \in DOMAIN letter_configs :
                          i \in Leds(letter_configs[idx])}
        IN  IF i \notin FadeAssigned THEN buf[i]
            ELSE SegmentColor(CHOOSE o \in owners : \A q \in owners : q <= o, t)]

-----------------------------------------------------------------------------
(* Wave-effect arithmetic.  Positions and distances along the strip are   *)
(* kept as numerators over WAVE_PERIOD_MS.                                 *)

WavePosElapsed(ct) ==
    (TicksDiff(ct, start_time) % WAVE_PERIOD_MS) * NUM_LEDS

\* wave_pos = ((current_time % wave_period_ms) / wave_period_ms) * NUM_LEDS
WavePos(ct) == (ct % WAVE_PERIOD_MS) * NUM_LEDS

\* wave_colors[int(wave_pos) % len(wave_colors)]
WaveColor(wp) ==
    wave_colors[((wp \div WAVE_PERIOD_MS) % Len(wave_colors)) + 1]

WaveLedAlwaysBlend(i, wp, rnd) ==
    LET reach == THRESHOLD * WAVE_PERIOD_MS
        distance == Abs(i * WAVE_PERIOD_MS - wp)
    IN  blend_color(warm_white, WaveColor(wp), reach - distance, reach, rnd)

\* The colour of LED i (lines 182-188); distance and threshold both times
\* WAVE_PERIOD_MS, factor = 1 - distance / threshold.
WaveLed(i, wp, rnd) ==
    LET reach == THRESHOLD * WAVE_PERIOD_MS
        distance == Abs(i * WAVE_PERIOD_MS - wp)
    IN  IF distance < reach
        THEN blend_color(warm_white, WaveColor(wp), reach - distance, reach, rnd)
        ELSE warm_white

WaveAssignedShort == 0 .. (NUM_LEDS - 2)

\* The positions the loop of line 181 stores into: range(NUM_LEDS).
WaveAssigned == 0 .. (NUM_LEDS - 1)

\* The channels <<i, k>> of a frame in which rounding shows.
WaveRoundable(wp) ==
    {ch \in WaveAssigned \X (1 .. 3) :
        WaveLed(ch[1], wp, [k \in 1 .. 3 |-> 1])[ch[2]]
            # WaveLed(ch[1], wp, [k \in 1 .. 3 |-> 0])[ch[2]]}

\* The buffer after the loop of lines 181-189; short is the set of channels
\* whose float falls short.
WaveBuffer(buf, wp, short) ==
    [i \in DOMAIN buf |->
        IF i \in WaveAssigned
        THEN WaveLed(i, wp, [k \in 1 .. 3 |-> IF <<i, k>> \in short THEN 1 ELSE 0])
        ELSE buf[i]]

-----------------------------------------------------------------------------
(* Cycle-colours arithmetic (from the specification text, section 4.4)    *)

HUE_RATE == 36   \* degrees of hue per second

\* hue = (t * rate) mod 360, t the seconds since activation, in whole degrees
CycleHue(ct, st) == ((TicksDiff(ct, st) * HUE_RATE) \div 1000) % 360

-----------------------------------------------------------------------------
(* The frame loop shared by the mode functions *)

LoopContinuesSeconds(now, st) == 1000 * TicksDiff(now, st) < DurationMs

\* while time.ticks_diff(time.ticks_ms(), start_time) < duration_ms
LoopContinues(now, st) == TicksDiff(now, st) < DurationMs

NoCall == [fn |-> "none", done |-> FALSE]

\* Entry of a mode function: start_time = time.ticks_ms()
Enter(m) ==
    /\ mode = m
    /\ pc = "activate"
    /\ start_time' = clock
    /\ activations' = activations + 1
    /\ frames' = 0
    /\ writes' = 0
    /\ sleeps' = 0
    /\ pc' = "test"

\* The loop test.  It reads the tick counter; when it fails the function
\* returns and its locals are gone.
LoopTest(m) ==
    /\ mode = m
    /\ pc = "test"
    /\ IF LoopContinues(clock, start_time)
       THEN pc' = "frame" /\ UNCHANGED letter_params
       ELSE pc' = "return" /\ letter_params' = << >>
    /\ UNCHANGED <<letter_configs, np, sink, clock, mode, start_time,
                   current_time, wave_pos, assigned, frames, writes, sleeps,
                   activations, draws, call>>

\* np.write()
WriteFrame(m) ==
    /\ mode = m
    /\ pc = "write"
    /\ sink' = np
    /\ writes' = writes + 1
    /\ assigned' = {}
    /\ pc' = "sleep"
    /\ UNCHANGED <<letter_configs, np, clock, mode, start_time, current_time,
                   letter_params, wave_pos, frames, sleeps, activations,
                   draws, call>>

\* time.sleep(0.05): the tick counter is SLEEP_MS further on.  What a tick
\* takes beyond that is counted at the reading of the next frame.
SleepFrame(m) ==
    /\ mode = m
    /\ pc = "sleep"
    /\ clock' = TicksAdd(SLEEP_MS)
    /\ sleeps' = sleeps + 1
    /\ pc' = "test"
    /\ UNCHANGED <<letter_configs, np, sink, mode, start_time, current_time,
                   letter_params, wave_pos, assigned, frames, writes,
                   activations, draws, call>>

-----------------------------------------------------------------------------
(* mode_fade_letters *)

\* Lines 124-141: start_time, then one base colour and one random phase
\* offset per letter.
FadeActivate ==
    /\ Enter("fade")
    /\ \E offs \in [DOMAIN letter_configs -> PhaseOffsets] :
          letter_params' =
              [idx \in DOMAIN letter_configs |->
                  [base_color |-> BaseColor(letter_configs[idx].letter),
                   phase_offset |-> offs[idx]]]
    /\ draws' = draws + Len(letter_configs)
    /\ UNCHANGED <<letter_configs, np, sink, clock, mode, current_time,
                   wave_pos, assigned, call>>

FadeTest == LoopTest("fade")

FadeFrameRedraw ==
    /\ mode = "fade"
    /\ pc = "frame"
    /\ \E j \in 0 .. MaxJitter : clock' = TicksAdd(j)
    /\ current_time' = clock'
    /\ \E offs \in [DOMAIN letter_configs -> PhaseOffsets] :
          letter_params' =
              [idx \in DOMAIN letter_configs |->
                  [base_color |-> BaseColor(letter_configs[idx].letter),
                   phase_offset |-> offs[idx]]]
    /\ draws' = draws + Len(letter_configs)
    /\ np' = FadeBuffer(np, FadeT(current_time', start_time))
    /\ assigned' = assigned \cup FadeAssigned
    /\ frames' = frames + 1
    /\ pc' = "write"
    /\ UNCHANGED <<letter_configs, sink, mode, start_time, wave_pos, writes,
                   sleeps, activations, call>>

\* Lines 143-157: the second reading of the tick counter, t, and the colour
\* of every letter's LEDs.
FadeFrame ==
    /\ mode = "fade"
    /\ pc = "frame"
    /\ \E j \in 0 .. MaxJitter : clock' = TicksAdd(j)
    /\ current_time' = clock'
    /\ np' = FadeBuffer(np, FadeT(current_time', start_time))
    /\ assigned' = assigned \cup FadeAssigned
    /\ frames' = frames + 1
    /\ pc' = "write"
    /\ UNCHANGED <<letter_configs, sink, mode, start_time, letter_params,
                   wave_pos, writes, sleeps, activations, draws, call>>

FadeWrite == WriteFrame("fade")

FadeSleep == SleepFrame("fade")

-----------------------------------------------------------------------------
(* mode_wave_effect *)

\* Lines 169-173
WaveActivate ==
    /\ Enter("wave")
    /\ UNCHANGED <<letter_configs, np, sink, clock, mode, current_time,
                   letter_params, wave_pos, assigned, draws, call>>

WaveTest == LoopTest("wave")

WaveFrameNoWrite ==
    /\ mode = "wave"
    /\ pc = "frame"
    /\ \E j \in 0 .. MaxJitter : clock' = TicksAdd(j)
    /\ current_time' = clock'
    /\ wave_pos' = WavePos(current_time')
    /\ \E short \in SUBSET WaveRoundable(wave_pos') :
          np' = WaveBuffer(np, wave_pos', short)
    /\ assigned' = assigned \cup WaveAssigned
    /\ frames' = frames + 1
    /\ pc' = "sleep"
    /\ UNCHANGED <<letter_configs, sink, mode, start_time, letter_params,
                   writes, sleeps, activations, draws, call>>

\* Lines 175-189: the second reading of the tick counter, the wave position
\* and the colour of every LED of the strip.
WaveFrame ==
    /\ mode = "wave"
    /\ pc = "frame"
    /\ \E j \in 0 .. MaxJitter : clock' = TicksAdd(j)
    /\ current_time' = clock'
    /\ wave_pos' = WavePos(current_time')
    /\ \E short \in SUBSET WaveRoundable(wave_pos') :
          np' = WaveBuffer(np, wave_pos', short)
    /\ assigned' = assigned \cup WaveAssigned
    /\ frames' = frames + 1
    /\ pc' = "write"
    /\ UNCHANGED <<letter_configs, sink, mode, start_time, letter_params,
                   writes, sleeps, activations, draws, call>>

WaveWrite == WriteFrame("wave")

WaveSleep == SleepFrame("wave")

-----------------------------------------------------------------------------
(* mode_cycle_colors: only its header and docstring are in the source; the *)
(* body follows the specification text (section 4.4) and the frame loop of *)
(* the other two modes.                                                    *)

CycleActivate ==
    /\ Enter("cycle")
    /\ UNCHANGED <<letter_configs, np, sink, clock, mode, current_time,
                   letter_params, wave_pos, assigned, draws, call>>

CycleTest == LoopTest("cycle")

CycleFrame ==
    /\ mode = "cycle"
    /\ pc = "frame"
    /\ \E j \in 0 .. MaxJitter : clock' = TicksAdd(j)
    /\ current_time' = clock'
    /\ \E rnd \in Roundings :
          np' = [i \in Positions |->
                    hsv_to_rgb(CycleHue(current_time', start_time),
                               SvDen, SvDen, rnd)]
    /\ assigned' = assigned \cup Positions
    /\ frames' = frames + 1
    /\ pc' = "write"
    /\ UNCHANGED <<letter_configs, sink, mode, start_time, letter_params,
                   wave_pos, writes, sleeps, activations, draws, call>>

CycleWrite == WriteFrame("cycle")

CycleSleep == SleepFrame("cycle")

-----------------------------------------------------------------------------
(* The mode scheduler (specification text, section 4.5): the main loop     *)
(* calls the modes in the order of Schedule, each for DurationMs, for ever. *)

Schedule == <<"fade", "wave", "cycle">>

ScheduleIndex(m) == CHOOSE k \in DOMAIN Schedule : Schedule[k] = m

NextMode(m) == Schedule[(ScheduleIndex(m) % Len(Schedule)) + 1]

\* A mode function has returned: the next one is called.
SchedulerStep ==
    /\ pc = "return"
    /\ activations < MaxActivations
    /\ mode' = NextMode(mode)
    /\ pc' = "activate"
    /\ UNCHANGED <<letter_configs, np, sink, clock, start_time, current_time,
                   letter_params, wave_pos, assigned, frames, writes, sleeps,
                   activations, draws, call>>

-----------------------------------------------------------------------------
(* The program *)

\* Tick-counter values at which the program may start: zero, an eighth of a
\* wave period, so that the wave period ends during the second mode, and so
\* that the counter wraps during the first and during the second mode.
StartClocks ==
    {0, WAVE_PERIOD_MS \div 8, WAVE_PERIOD_MS - 3 * SLEEP_MS,
     TICKS_PERIOD - SLEEP_MS \div 2, TICKS_PERIOD - 3 * SLEEP_MS}

\* After lines 16-54: the strip is created dark and no mode has run yet.
Init ==
    /\ letter_configs \in Configs
    /\ np = [i \in Positions |-> black]
    /\ sink = [i \in Positions |-> black]
    /\ clock \in StartClocks
    /\ mode = Schedule[1]
    /\ pc = "activate"
    /\ start_time = 0
    /\ current_time = 0
    /\ letter_params = << >>
    /\ wave_pos = 0
    /\ assigned = {}
    /\ frames = 0
    /\ writes = 0
    /\ sleeps = 0
    /\ activations = 0
    /\ draws = 0
    /\ call = NoCall

Next ==
    \/ FadeActivate
    \/ FadeTest
    \/ FadeFrame
    \/ FadeWrite
    \/ FadeSleep
    \/ WaveActivate
    \/ WaveTest
    \/ WaveFrame
    \/ WaveWrite
    \/ WaveSleep
    \/ CycleActivate
    \/ CycleTest
    \/ CycleFrame
    \/ CycleWrite
    \/ CycleSleep
    \/ SchedulerStep

Spec == Init /\ [][Next]_vars

-----------------------------------------------------------------------------
(* The colour primitives on their own: every step calls one of them on     *)
(* inputs drawn from the sets below and records the call and its result.   *)

ChannelSamples == {0, 229, 255}
ColorSamples == ChannelSamples \X ChannelSamples \X ChannelSamples

\* Blend factors fn/fd: 0.0, 1.0, two inside and two outside [0, 1].
FactorSamples == {<<0, 1>>, <<1, 1>>, <<1, 2>>, <<1, 3>>, <<3, 2>>, <<-1, 2>>}

HueSamples == (-HueSpan) .. (360 + HueSpan)

\* A primitive is about to be called on drawn arguments.
InitPrim ==
    /\ letter_configs = ConfigReference
    /\ np = [i \in Positions |-> black]
    /\ sink = [i \in Positions |-> black]
    /\ clock = 0
    /\ mode = "none"
    /\ pc = "idle"
    /\ start_time = 0
    /\ current_time = 0
    /\ letter_params = << >>
    /\ wave_pos = 0
    /\ assigned = {}
    /\ frames = 0
    /\ writes = 0
    /\ sleeps = 0
    /\ activations = 0
    /\ draws = 0
    /\ \/ \E c1 \in ColorSamples, c2 \in ColorSamples, f \in FactorSamples,
             rnd \in Roundings :
             call = [fn |-> "blend", c1 |-> c1, c2 |-> c2, factor |-> f,
                     rnd |-> rnd, done |-> FALSE, result |-> black]
       \/ \E h \in HueSamples, sn \in 0 .. SvDen, vn \in 0 .. SvDen,
             rnd \in Roundings :
             call = [fn |-> "hsv", h |-> h, sn |-> sn, vn |-> vn,
                     rnd |-> rnd, done |-> FALSE, result |-> black]

CallBlend ==
    /\ call.fn = "blend"
    /\ ~call.done
    /\ call' = [call EXCEPT
                  !.done = TRUE,
                  !.result = blend_color(call.c1, call.c2, call.factor[1],
                                         call.factor[2], call.rnd)]
    /\ UNCHANGED <<letter_configs, np, sink, clock, mode, pc, start_time,
                   current_time, letter_params, wave_pos, assigned, frames,
                   writes, sleeps, activations, draws>>

CallHsv ==
    /\ call.fn = "hsv"
    /\ ~call.done
    /\ call' = [call EXCEPT
                  !.done = TRUE,
                  !.result = hsv_to_rgb(call.h, call.sn, call.vn, call.rnd)]
    /\ UNCHANGED <<letter_configs, np, sink, clock, mode, pc, start_time,
                   current_time, letter_params, wave_pos, assigned, frames,
                   writes, sleeps, activations, draws>>

NextPrim == CallBlend \/ CallHsv

SpecPrim == InitPrim /\ [][NextPrim]_vars

-----------------------------------------------------------------------------
(* Properties *)

InWave(p) == mode = "wave" /\ pc = p
InFade(p) == mode = "fade" /\ pc = p

\* Elapsed-in-mode time of the frame in hand, as the loop test measures it.
FrameElapsed == TicksDiff(current_time, start_time)

Far(i) == Abs(i * WAVE_PERIOD_MS - wave_pos) >= THRESHOLD * WAVE_PERIOD_MS

\* C1: in every Wave-Effect frame, every LED whose distance from the wave
\* position is at least the threshold is written exactly warm white, in the
\* buffer handed to np.write() and on the strip after it.
C1_FarLedsWarmWhite ==
    /\ InWave("write") => \A i \in Positions : Far(i) => np[i] = warm_white
    /\ InWave("sleep") => \A i \in Positions : Far(i) => sink[i] = warm_white

C1_Witness ==
    /\ InWave("sleep")
    /\ \E i \in Positions : Far(i) /\ sink[i] = warm_white
    /\ \E i \in Positions : ~Far(i) /\ sink[i] # warm_white

\* C2 as claimed: the wave position of a Wave-Effect frame is
\* ((t mod W) / W) * StripLength for the elapsed time t since activation.
C2_WavePosFromElapsed ==
    InWave("write") =>
        wave_pos = (FrameElapsed % WAVE_PERIOD_MS) * NUM_LEDS

\* C2 amended: the wave position is taken from the tick counter itself, that
\* is from the counter value at activation plus the elapsed time (modulo the
\* counter's period): it is ((start_time + t) mod W) / W * StripLength, and
\* at activation (t = 0) it is (start_time mod W) / W * StripLength.
C2_WavePosFromClock ==
    InWave("write") =>
        /\ wave_pos =
              (((start_time + FrameElapsed) % TICKS_PERIOD) % WAVE_PERIOD_MS)
                  * NUM_LEDS
        /\ FrameElapsed = 0 =>
              wave_pos = (start_time % WAVE_PERIOD_MS) * NUM_LEDS

C2_Witness ==
    /\ InWave("write")
    /\ FrameElapsed > 0
    /\ start_time % WAVE_PERIOD_MS # 0
    /\ wave_pos # (FrameElapsed % WAVE_PERIOD_MS) * NUM_LEDS

\* The positions of a mode function between its entry and its return.
LoopPcs == {"test", "frame", "write", "sleep"}

\* The parameters mode_fade_letters sets up for the configured letters.
ParamsWellFormed(lp) ==
    /\ DOMAIN lp = DOMAIN letter_configs
    /\ \A idx \in DOMAIN lp :
          /\ lp[idx].base_color = BaseColor(letter_configs[idx].letter)
          /\ lp[idx].phase_offset \in 0 .. (FADE_PERIOD_MS - 1)

\* C3: in Fade-Letters mode the phase offsets (and base colours) are drawn
\* once, at activation and before the first frame: every activation of the
\* mode calls random.uniform once per segment, and no later step of that
\* activation draws again or changes a segment's offset or base colour.
C3_OffsetsDrawnOncePerActivation ==
    [][ /\ (mode = "fade" /\ pc = "activate" /\ pc' # pc) =>
              /\ draws' = draws + Len(letter_configs)
              /\ ParamsWellFormed(letter_params')
              /\ frames' = 0
        /\ (mode = "fade" /\ pc \in LoopPcs /\ pc' \in LoopPcs) =>
              /\ draws' = draws
              /\ letter_params' = letter_params
              /\ ParamsWellFormed(letter_params')
      ]_vars

C3_Witness ==
    /\ InFade("write")
    /\ frames = 2
    /\ activations = Len(Schedule) + 1
    /\ draws = 2 * Len(letter_configs)

HueOutOfRange == call.h < 0 \/ call.h >= 360

\* The results hsv_to_rgb may give for the hue wrapped into [0, 360).
WrappedResults ==
    {hsv_to_rgb(call.h % 360, call.sn, call.vn, q) : q \in Roundings}

\* C4 as claimed: for a hue outside [0, 360), hsv_to_rgb(h, s, v) equals
\* hsv_to_rgb(h mod 360, s, v).
C4_HueWrapped ==
    (call.fn = "hsv" /\ call.done /\ HueOutOfRange) =>
        call.result \in WrappedResults

\* C4 amended: hsv_to_rgb does not wrap the hue.  Every hue outside [0, 360)
\* is converted by the last branch (the one of the sector [300, 360)), so
\* that green is the smallest and red the largest channel whatever h mod 360
\* is; when h mod 360 lies in [300, 360) the result is that of
\* hsv_to_rgb(h mod 360, s, v) up to float rounding (1 per channel).
C4_OutOfRangeHueUsesLastSector ==
    (call.fn = "hsv" /\ call.done /\ HueOutOfRange) =>
        /\ call.result[2] <= call.result[3]
        /\ call.result[3] <= call.result[1]
        /\ (call.h % 360 >= 300) =>
              /\ call.result \in WrappedResults
              /\ \A w \in WrappedResults : \A k \in 1 .. 3 :
                    Abs(call.result[k] - w[k]) <= 1

C4_Witness ==
    /\ call.fn = "hsv"
    /\ call.done
    /\ call.h < 0
    /\ call.h % 360 >= 300
    /\ call.sn = SvDen
    /\ call.vn = SvDen
    /\ \E w \in WrappedResults : call.result[3] = w[3] + 1

\* C5: blend_color(c1, c2, 0.0) is exactly c1 and blend_color(c1, c2, 1.0)
\* is exactly c2, for all colours with channels in 0 .. 255.
C5_BlendEndpoints ==
    (call.fn = "blend" /\ call.done) =>
        /\ call.factor[1] = 0 => call.result = call.c1
        /\ call.factor[1] = call.factor[2] => call.result = call.c2

C5_Witness ==
    /\ call.fn = "blend"
    /\ call.done
    /\ call.factor[1] = call.factor[2]
    /\ call.c1 # call.c2
    /\ call.result = call.c2

\* C6 as claimed: whenever a frame is handed to np.write(), every position
\* of the strip has been assigned since the previous np.write().
C6_EveryPositionAssigned == pc = "write" => assigned = Positions

\* C6 amended: every frame of Wave-Effect and Cycle-Colours mode assigns
\* every position, and so does every frame of Fade-Letters mode when the
\* segments together list every position (contiguous or not).  A Fade-Letters
\* frame assigns exactly the positions some segment lists; a position that no
\* segment lists keeps the colour last written to the strip.
C6_AssignedPositions ==
    pc = "write" =>
        /\ mode # "fade" => assigned = Positions
        /\ (mode = "fade" /\ AllLeds = Positions) => assigned = Positions
        /\ mode = "fade" =>
              /\ assigned = AllLeds
              /\ \A i \in Positions \ AllLeds : np[i] = sink[i]

C6_Witness ==
    /\ InFade("write")
    /\ letter_configs = ConfigInterleaved
    /\ activations > Len(Schedule)
    /\ assigned = Positions
    /\ \E i \in Positions : np[i] # sink[i]

\* The schedule entry running after n activations have begun.
Running(n) == Schedule[((n - 1) % Len(Schedule)) + 1]

\* C7: the scheduler cycles through FadeLetters, WaveEffect, CycleColors.  The
\* active mode changes only in a step taken after the active mode's loop test
\* found its duration used up, and then to the next entry of the list; the
\* k-th activation runs entry ((k - 1) mod 3) + 1, so that after one full
\* rotation the first entry is active again; and some step is always possible
\* (up to the number of activations explored).
C7_SchedulerRotation ==
    /\ [][ mode' # mode =>
              /\ pc = "return"
              /\ TicksDiff(clock, start_time) >= DurationMs
              /\ mode' = NextMode(mode)
              /\ pc' = "activate" ]_vars
    /\ [](mode = (IF pc = "activate" THEN Running(activations + 1)
                                     ELSE Running(activations)))
    /\ []((pc # "return" \/ activations < MaxActivations) => ENABLED Next)

C7_Witness ==
    /\ activations = Len(Schedule) + 1
    /\ mode = Schedule[1]
    /\ pc = "return"

\* C8: in every Fade-Letters frame the brightness of each segment lies in
\* [0, 1], every LED of the segment holds one and the same colour, and each
\* channel of it is int(base channel * brightness): an integer from 0 to the
\* base channel, the base channel itself when the brightness is 1.
C8_FadeFrameColours ==
    InFade("write") =>
        \A idx \in DOMAIN letter_configs :
            LET b    == Brightness(FadeT(current_time, start_time),
                                   letter_params[idx].phase_offset)
                base == letter_params[idx].base_color
            IN  /\ 0 <= b
                /\ b <= BrightDen
                /\ \A led \in Leds(letter_configs[idx]) :
                      /\ \A k \in 1 .. 3 :
                            /\ np[led][k] = (base[k] * b) \div BrightDen
                            /\ 0 <= np[led][k]
                            /\ np[led][k] <= base[k]
                      /\ b = BrightDen => np[led] = base
                      /\ \A other \in Leds(letter_configs[idx]) :
                            np[other] = np[led]

C8_Witness ==
    /\ InFade("write")
    /\ \E idx \in DOMAIN letter_configs :
          /\ Brightness(FadeT(current_time, start_time),
                        letter_params[idx].phase_offset) = BrightDen
          /\ \A led \in Leds(letter_configs[idx]) :
                np[led] = BaseColor(letter_configs[idx].letter)
    /\ \E idx \in DOMAIN letter_configs :
          LET b == Brightness(FadeT(current_time, start_time),
                              letter_params[idx].phase_offset)
          IN  0 < b /\ b < BrightDen

\* C9: every tick of a mode's frame loop computes the frame, writes exactly
\* that frame once, and sleeps once for at least 50 ms, in this order; the
\* duration is tested only between ticks, and once the test finds it used up
\* the function returns without another frame or write.
C9_TickOrder ==
    /\ [](pc \in {"test", "frame", "return"} =>
              frames = writes /\ sleeps = writes)
    /\ [](pc = "write" => frames = writes + 1 /\ sleeps = writes)
    /\ [](pc = "sleep" => frames = writes /\ sleeps + 1 = writes)
    /\ [][ /\ (pc \in LoopPcs /\ frames' # frames) =>
                 pc = "frame" /\ pc' = "write" /\ frames' = frames + 1
           /\ (pc \in LoopPcs /\ writes' # writes) =>
                 pc = "write" /\ pc' = "sleep" /\ writes' = writes + 1
                 /\ sink' = np
           /\ (pc \in LoopPcs /\ sleeps' # sleeps) =>
                 pc = "sleep" /\ pc' = "test" /\ sleeps' = sleeps + 1
                 /\ TicksDiff(clock', clock) >= SLEEP_MS
           /\ (pc' = "return" /\ pc # "return") =>
                 pc = "test" /\ TicksDiff(clock, start_time) >= DurationMs
           /\ (pc = "test" /\ TicksDiff(clock, start_time) >= DurationMs) =>
                 pc' = "return" /\ UNCHANGED <<np, sink, frames, writes>>
           /\ pc = "return" => UNCHANGED <<np, sink, frames, writes>>
         ]_vars

C9_Witness ==
    /\ InWave("return")
    /\ frames = 2
    /\ writes = 2
    /\ sleeps = 2

\* C10: every frame of Fade-Letters mode is computed for a time t with
\* 0 <= t < duration, t being current_time - start_time of line 144.
C10_FrameTimeWithinDuration ==
    InFade("write") =>
        /\ 0 <= FadeT(current_time, start_time)
        /\ FadeT(current_time, start_time) < DurationMs

=============================================================================
